---- MODULE Spec2Model ----
(***************************************************************************)
(* Model of the keylime agent's main program (src/src/main.rs): the        *)
(* startup path of main(), the background worker with the payload runner   *)
(* run_encrypted_payload(), and the key rendezvous that the keys handlers  *)
(* drive through the shared QuoteData.                                     *)
(*                                                                         *)
(* Cryptography is idealised: a half-key is a small natural number, XOR is *)
(* computed bit by bit, base64 and HMAC are injective encodings, and an    *)
(* AEAD ciphertext decrypts under exactly the key it was sealed with.      *)
(***************************************************************************)
EXTENDS Integers, Sequences, FiniteSets, TLC

\* Number of requests (U posts, V posts, verify) the clients make in one run.
MaxRequests == 3

\* Number of spurious condition-variable wakeups in one run.
MaxSpurious == 1

VARIABLES
    config,            \* the KeylimeConfig the agent is started with
    main_pc,           \* next startup step of main()
    main_result,       \* what main() returned ("running" until it returns)
    fx,                \* startup side effects performed so far
    ident,             \* AK / node key / certificate materialised by startup
    identity_file,     \* contents of the persisted identity file
    server,            \* the HTTP server: "unbound", "bound", "running", "stopped"
    ukeys, vkeys,      \* QuoteData.ukeys / QuoteData.vkeys
    payload_symm_key,  \* QuoteData.payload_symm_key
    auth_tag,          \* QuoteData.auth_tag
    encr_payload,      \* QuoteData.encr_payload
    symm_key_lock,     \* owner of the payload_symm_key mutex
    cvar_notified,     \* a notification of payload_symm_key_cvar is pending
    worker_pc,         \* position of the worker task
    worker_result,     \* what the worker task returned
    mount_fs,          \* files under {secure_mount}/unzipped
    verify_resp,       \* last response of keys/verify
    tpmcontext,        \* the TPM context: its owner, the holder of its mutex
                       \* and the threads inside a TPM call
    hist               \* history: the last post, counters of requests and
                       \* of runner events

startupVars == <<config, main_pc, main_result, fx, ident, identity_file>>
tpmVars == <<tpmcontext>>
rendezvousVars == <<ukeys, vkeys, payload_symm_key, auth_tag, encr_payload>>
runnerVars == <<symm_key_lock, cvar_notified, worker_pc, worker_result, mount_fs>>
vars == <<config, main_pc, main_result, fx, ident, identity_file, server,
          ukeys, vkeys, payload_symm_key, auth_tag, encr_payload,
          symm_key_lock, cvar_notified, worker_pc, worker_result, mount_fs,
          verify_resp, tpmcontext, hist>>

\* Option<T>: None is the empty sequence and Some(x) the sequence <<x>>.
None == <<>>
Some(x) == <<x>>

(***************************************************************************)
(* Configuration                                                           *)
(***************************************************************************)

\* The configurations the agent is started with. payload_script is "" or a
\* script name; run_as and ek_handle are optional; agent_data is the
\* persisted identity found by KeylimeConfig::build (absent, present but for
\* other algorithms, or present and valid); run_revocation is true when the
\* build has the with-zmq feature and the option is set.
\* extract_payload_zip selects the archive extraction.
AllConfigs ==
    [mtls_enabled : BOOLEAN,
     enable_insecure_payload : BOOLEAN,
     payload_script : {"", "autorun.sh"},
     extract_payload_zip : BOOLEAN,
     run_revocation : BOOLEAN,
     run_as : {None, Some("keylime:tss")},
     ek_handle : {None, Some("0x81000000")},
     agent_data : {"absent", "invalid", "valid"}]

\* A fresh start as root with a transient EK.
FreshStart(c) ==
    c.run_as = None /\ c.ek_handle = None /\ c.agent_data = "absent"

\* The payload options in full, on a fresh start; archive extraction only
\* for the insecure-payload setups without revocation listener.
PayloadConfigs ==
    {c \in AllConfigs :
        /\ FreshStart(c)
        /\ c.extract_payload_zip =>
              (~c.mtls_enabled /\ c.enable_insecure_payload /\ ~c.run_revocation)}

\* The startup options, with no payload script, extraction or listener.
StartupConfigs ==
    {c \in AllConfigs :
        /\ ~c.enable_insecure_payload /\ c.payload_script = ""
        /\ ~c.extract_payload_zip /\ ~c.run_revocation
        /\ \/ ~c.mtls_enabled /\ c.agent_data = "absent"
           \/ c.run_as = None /\ c.ek_handle = None}

Configs == PayloadConfigs \cup StartupConfigs

\* Mutant of PayloadConfigRejected: the test of payload_script is inverted.
PayloadConfigRejected_EmptyScript(c) ==
    /\ ~c.mtls_enabled
    /\ ~c.enable_insecure_payload
    /\ c.payload_script = ""

\* main.rs:399-401, the combination main() refuses to start with.
PayloadConfigRejected(c) ==
    /\ ~c.mtls_enabled
    /\ ~c.enable_insecure_payload
    /\ c.payload_script # ""

\* Mutant of PayloadAllowed: the guard is dropped.
PayloadAllowed_Always(c) == TRUE

\* main.rs:320, the guard of the payload release procedure.
PayloadAllowed(c) == c.mtls_enabled \/ c.enable_insecure_payload

(***************************************************************************)
(* Startup: main(), main.rs:394-818                                        *)
(***************************************************************************)

\* Mutant of StartupOrder: the server is bound before the registrar exchange.
StartupOrder_BindBeforeRegister ==
    <<"build", "check", "mount", "chown", "run_as", "tpm_ctx", "vendor",
      "set_auth", "create_ek", "validate", "old_ak", "new_ak", "nk", "mtls",
      "store", "paths", "bind", "register", "activate_credential", "flush_ek",
      "activate", "spawn", "join", "stop", "done">>

\* Mutant of StartupOrder: the registrar is contacted before the identity
\* file is written.
StartupOrder_RegisterBeforeStore ==
    <<"build", "check", "mount", "chown", "run_as", "tpm_ctx", "vendor",
      "set_auth", "create_ek", "validate", "old_ak", "new_ak", "nk", "mtls",
      "register", "store", "activate_credential", "flush_ek", "activate",
      "paths", "bind", "spawn", "join", "stop", "done">>

\* Mutant of StartupOrder: privileges are dropped before the mount is chowned.
StartupOrder_DropBeforeChown ==
    <<"build", "check", "mount", "run_as", "chown", "tpm_ctx", "vendor",
      "set_auth", "create_ek", "validate", "old_ak", "new_ak", "nk", "mtls",
      "store", "register", "activate_credential", "flush_ek", "activate",
      "paths", "bind", "spawn", "join", "stop", "done">>

\* The order of the startup steps of main().
StartupOrder ==
    <<"build", "check", "mount", "chown", "run_as", "tpm_ctx", "vendor",
      "set_auth", "create_ek", "validate", "old_ak", "new_ak", "nk", "mtls",
      "store", "register", "activate_credential", "flush_ek", "activate",
      "paths", "bind", "spawn", "join", "stop", "done">>

StepIndex(s) == CHOOSE i \in 1..Len(StartupOrder) : StartupOrder[i] = s

\* The step main() executes after step s has succeeded.
After(s) == StartupOrder[StepIndex(s) + 1]

Running == [status |-> "running", kind |-> "", at |-> ""]
Ok == [status |-> "Ok", kind |-> "", at |-> ""]
Err(kind, at) == [status |-> "Err", kind |-> kind, at |-> at]

\* A step succeeded: main() goes on with the next step.
Advance == main_pc' = After(main_pc) /\ UNCHANGED main_result

\* Mutant of Fail: the error is recorded and main() goes on with the next step.
Fail_Continue(kind) ==
    main_pc' = After(main_pc) /\ main_result' = Err(kind, main_pc)

\* A step failed: the ? operator (or an explicit return) leaves main() at once.
Fail(kind) == main_pc' = "done" /\ main_result' = Err(kind, main_pc)

\* main.rs:395
Build ==
    /\ main_pc = "build"
    /\ \E ok \in BOOLEAN : IF ok THEN Advance ELSE Fail("Build")
    /\ UNCHANGED <<tpmcontext, config, fx, ident, identity_file, server, rendezvousVars,
                   runnerVars, verify_resp, hist>>

\* main.rs:397-407
CheckPayloadConfig ==
    /\ main_pc = "check"
    /\ IF PayloadConfigRejected(config) THEN Fail("Configuration") ELSE Advance
    /\ UNCHANGED <<tpmcontext, config, fx, ident, identity_file, server, rendezvousVars,
                   runnerVars, verify_resp, hist>>

\* main.rs:409-410
Mount ==
    /\ main_pc = "mount"
    /\ \E ok \in BOOLEAN :
          IF ok THEN Advance /\ fx' = [fx EXCEPT !.mounted = TRUE]
          ELSE Fail("SecureMount") /\ UNCHANGED fx
    /\ UNCHANGED <<tpmcontext, config, ident, identity_file, server, rendezvousVars,
                   runnerVars, verify_resp, hist>>

\* main.rs:413-414
Chown ==
    /\ main_pc = "chown"
    /\ IF config.run_as = None THEN Advance /\ UNCHANGED fx
       ELSE \E ok \in BOOLEAN :
              IF ok THEN Advance /\ fx' = [fx EXCEPT !.chowned = TRUE]
              ELSE Fail("Permission") /\ UNCHANGED fx
    /\ UNCHANGED <<tpmcontext, config, ident, identity_file, server, rendezvousVars,
                   runnerVars, verify_resp, hist>>

\* main.rs:415-421
RunAs ==
    /\ main_pc = "run_as"
    /\ IF config.run_as = None THEN Advance /\ UNCHANGED fx
       ELSE \E ok \in BOOLEAN :
              IF ok THEN Advance /\ fx' = [fx EXCEPT !.dropped = TRUE]
              ELSE Fail("Configuration") /\ UNCHANGED fx
    /\ UNCHANGED <<tpmcontext, config, ident, identity_file, server, rendezvousVars,
                   runnerVars, verify_resp, hist>>

\* main.rs:426
TpmCtx ==
    /\ main_pc = "tpm_ctx"
    /\ \E ok \in BOOLEAN :
          IF ok
          THEN /\ Advance
               /\ fx' = [fx EXCEPT !.tpm_ctx = TRUE, !.tpm_ops = @ + 1]
               /\ tpmcontext' = [tpmcontext EXCEPT !.owner = "main"]
          ELSE Fail("Tpm") /\ UNCHANGED <<fx, tpmcontext>>
    /\ UNCHANGED <<config, ident, identity_file, server, rendezvousVars,
                   runnerVars, verify_resp, hist>>

\* main.rs:428-434
Vendor ==
    /\ main_pc = "vendor"
    /\ fx' = [fx EXCEPT !.tpm_ops = @ + 1]
    /\ \E ok \in BOOLEAN : IF ok THEN Advance ELSE Fail("Tpm")
    /\ UNCHANGED <<tpmcontext, config, ident, identity_file, server, rendezvousVars,
                   runnerVars, verify_resp, hist>>

\* main.rs:451-461
SetAuth ==
    /\ main_pc = "set_auth"
    /\ IF config.ek_handle = None THEN Advance /\ UNCHANGED fx
       ELSE /\ fx' = [fx EXCEPT !.tpm_ops = @ + 1]
            /\ \E ok \in BOOLEAN : IF ok THEN Advance ELSE Fail("Tpm")
    /\ UNCHANGED <<tpmcontext, config, ident, identity_file, server, rendezvousVars,
                   runnerVars, verify_resp, hist>>

\* main.rs:463-468
CreateEk ==
    /\ main_pc = "create_ek"
    /\ \E ok \in BOOLEAN :
          IF ok
          THEN /\ Advance
               /\ fx' = [fx EXCEPT !.tpm_ops = @ + 1,
                                    !.ek = IF config.ek_handle = None
                                           THEN "transient" ELSE "persistent"]
          ELSE Fail("Tpm") /\ fx' = [fx EXCEPT !.tpm_ops = @ + 1]
    /\ UNCHANGED <<tpmcontext, config, ident, identity_file, server, rendezvousVars,
                   runnerVars, verify_resp, hist>>

\* main.rs:470-482
ValidateAgentData ==
    /\ main_pc = "validate"
    /\ Advance
    /\ ident' = [ident EXCEPT !.agent_data =
                     IF config.agent_data = "valid" THEN "some" ELSE "none"]
    /\ UNCHANGED <<tpmcontext, config, fx, identity_file, server, rendezvousVars,
                   runnerVars, verify_resp, hist>>

\* main.rs:484-503
OldAk ==
    /\ main_pc = "old_ak"
    /\ IF ident.agent_data = "none" THEN Advance /\ UNCHANGED <<fx, ident>>
       ELSE \E out \in {"get_ak_failed", "loaded", "load_failed"} :
              CASE out = "get_ak_failed" ->
                     Fail("Identity") /\ UNCHANGED <<fx, ident>>
                [] out = "loaded" ->
                     /\ Advance
                     /\ fx' = [fx EXCEPT !.tpm_ops = @ + 1, !.ak_loads = @ + 1]
                     /\ ident' = [ident EXCEPT !.ak = "persisted"]
                [] out = "load_failed" ->
                     /\ Advance
                     /\ fx' = [fx EXCEPT !.tpm_ops = @ + 1, !.ak_loads = @ + 1]
                     /\ UNCHANGED ident
    /\ UNCHANGED <<tpmcontext, config, identity_file, server, rendezvousVars,
                   runnerVars, verify_resp, hist>>

\* Mutant of NeedNewAk: an AK is created whether or not the old one loaded.
NeedNewAk_Always(ak) == TRUE

\* main.rs:506-508: a new AK is created only when no old AK was loaded.
NeedNewAk(ak) == ak = "none"

\* main.rs:505-519
NewAk ==
    /\ main_pc = "new_ak"
    /\ IF ~NeedNewAk(ident.ak) THEN Advance /\ UNCHANGED <<fx, ident>>
       ELSE \E out \in {"create_failed", "load_failed", "ok"} :
              CASE out = "create_failed" ->
                     /\ Fail("Tpm")
                     /\ fx' = [fx EXCEPT !.tpm_ops = @ + 1]
                     /\ UNCHANGED ident
                [] out = "load_failed" ->
                     /\ Fail("Tpm")
                     /\ fx' = [fx EXCEPT !.tpm_ops = @ + 2, !.ak_creations = @ + 1,
                                          !.ak_loads = @ + 1]
                     /\ UNCHANGED ident
                [] out = "ok" ->
                     /\ Advance
                     /\ fx' = [fx EXCEPT !.tpm_ops = @ + 2, !.ak_creations = @ + 1,
                                          !.ak_loads = @ + 1]
                     /\ ident' = [ident EXCEPT !.ak = "fresh"]
    /\ UNCHANGED <<tpmcontext, config, identity_file, server, rendezvousVars,
                   runnerVars, verify_resp, hist>>

\* main.rs:535-538
NodeKeypair ==
    /\ main_pc = "nk"
    /\ \E ok \in BOOLEAN :
          IF ok
          THEN /\ Advance
               /\ ident' = [ident EXCEPT !.nk =
                     IF ident.agent_data = "some" THEN "persisted" ELSE "fresh"]
          ELSE Fail(IF ident.agent_data = "some" THEN "Identity" ELSE "Crypto")
               /\ UNCHANGED ident
    /\ UNCHANGED <<tpmcontext, config, fx, identity_file, server, rendezvousVars,
                   runnerVars, verify_resp, hist>>

\* main.rs:540-573
MtlsCert ==
    /\ main_pc = "mtls"
    /\ IF ~config.mtls_enabled THEN Advance /\ UNCHANGED ident
       ELSE \E out \in {"ca_failed", "get_cert_failed", "generate_failed",
                         "context_failed", "stored_cert", "new_cert"} :
              CASE out = "ca_failed" -> Fail("Crypto") /\ UNCHANGED ident
                [] out = "get_cert_failed" ->
                     /\ ident.agent_data = "some"
                     /\ Fail("Identity") /\ UNCHANGED ident
                [] out = "generate_failed" -> Fail("Crypto") /\ UNCHANGED ident
                [] out = "context_failed" -> Fail("Crypto") /\ UNCHANGED ident
                [] out = "stored_cert" ->
                     /\ ident.agent_data = "some"
                     /\ Advance
                     /\ ident' = [ident EXCEPT !.cert = "persisted"]
                [] out = "new_cert" ->
                     /\ Advance
                     /\ ident' = [ident EXCEPT !.cert = "fresh"]
    /\ UNCHANGED <<tpmcontext, config, fx, identity_file, server, rendezvousVars,
                   runnerVars, verify_resp, hist>>

\* Mutant of AgentDataNew: the file keeps the contents it had.
AgentDataNew_Stale(i) == [identity_file EXCEPT !.present = TRUE]

\* main.rs:576-583, AgentData::create: the configured algorithms, the AK,
\* the node key pair and the mTLS certificate in use.
AgentDataNew(i) ==
    [present |-> TRUE, algs |-> "current", ak |-> i.ak, nk |-> i.nk,
     cert |-> i.cert]

\* main.rs:575-584
StoreAgentData ==
    /\ main_pc = "store"
    /\ \E ok \in BOOLEAN :
          IF ok
          THEN /\ Advance
               /\ identity_file' = AgentDataNew(ident)
               /\ fx' = [fx EXCEPT !.identity_writes = @ + 1]
          ELSE Fail("Io") /\ UNCHANGED <<identity_file, fx>>
    /\ UNCHANGED <<tpmcontext, config, ident, server, rendezvousVars,
                   runnerVars, verify_resp, hist>>

\* main.rs:586-600
Register ==
    /\ main_pc = "register"
    /\ \E ok \in BOOLEAN :
          IF ok
          THEN /\ Advance
               /\ fx' = [fx EXCEPT !.register_calls = @ + 1, !.registered = TRUE,
                                    !.registered_ak = ident.ak]
          ELSE Fail("Registrar") /\ fx' = [fx EXCEPT !.register_calls = @ + 1]
    /\ UNCHANGED <<tpmcontext, config, ident, identity_file, server, rendezvousVars,
                   runnerVars, verify_resp, hist>>

\* main.rs:602-607
ActivateCredential ==
    /\ main_pc = "activate_credential"
    /\ \E ok \in BOOLEAN :
          IF ok
          THEN Advance /\ fx' = [fx EXCEPT !.tpm_ops = @ + 1, !.credential = TRUE]
          ELSE Fail("Tpm") /\ fx' = [fx EXCEPT !.tpm_ops = @ + 1]
    /\ UNCHANGED <<tpmcontext, config, ident, identity_file, server, rendezvousVars,
                   runnerVars, verify_resp, hist>>

\* Mutant of MustFlushEk: the EK is flushed whatever handle it has.
MustFlushEk_Always(c) == TRUE

\* main.rs:609: the EK is flushed only if main() created it.
MustFlushEk(c) == c.ek_handle = None

\* The steps of main() that pass ek_result.key_handle to the TPM:
\* main.rs:464-468, 488, 509-516, 602-607 and 610.
EkUsers ==
    {"create_ek", "old_ak", "new_ak", "activate_credential", "flush_ek"}

\* main.rs:608-611
FlushEk ==
    /\ main_pc = "flush_ek"
    /\ IF ~MustFlushEk(config) THEN Advance /\ UNCHANGED fx
       ELSE \E ok \in BOOLEAN :
              IF ok
              THEN Advance /\ fx' = [fx EXCEPT !.tpm_ops = @ + 1, !.ek = "flushed"]
              ELSE Fail("Tpm") /\ fx' = [fx EXCEPT !.tpm_ops = @ + 1]
    /\ UNCHANGED <<tpmcontext, config, ident, identity_file, server, rendezvousVars,
                   runnerVars, verify_resp, hist>>

\* main.rs:612-626
Activate ==
    /\ main_pc = "activate"
    /\ \E out \in {"hmac_failed", "call_failed", "ok"} :
          CASE out = "hmac_failed" -> Fail("Crypto") /\ UNCHANGED fx
            [] out = "call_failed" ->
                 Fail("Registrar") /\ fx' = [fx EXCEPT !.activate_calls = @ + 1]
            [] out = "ok" ->
                 /\ Advance
                 /\ fx' = [fx EXCEPT !.activate_calls = @ + 1, !.activated = TRUE]
    /\ UNCHANGED <<tpmcontext, config, ident, identity_file, server, rendezvousVars,
                   runnerVars, verify_resp, hist>>

\* main.rs:640-684: the paths are resolved and QuoteData is built, which
\* moves the TPM context into its mutex (main.rs:659).
Paths ==
    /\ main_pc = "paths"
    /\ \E ok \in BOOLEAN :
          IF ok
          THEN /\ Advance
               /\ tpmcontext' = [tpmcontext EXCEPT !.owner = "mutex"]
          ELSE Fail("Configuration") /\ UNCHANGED tpmcontext
    /\ UNCHANGED <<config, fx, ident, identity_file, server, rendezvousVars,
                   runnerVars, verify_resp, hist>>

\* main.rs:780-802
Bind ==
    /\ main_pc = "bind"
    /\ \E ok \in BOOLEAN :
          IF ok
          THEN /\ Advance
               /\ server' = "running"
               /\ fx' = [fx EXCEPT !.binds = @ + 1,
                                    !.bound_tls = config.mtls_enabled]
          ELSE Fail("Io") /\ UNCHANGED <<server, fx>>
    /\ UNCHANGED <<tpmcontext, config, ident, identity_file, rendezvousVars,
                   runnerVars, verify_resp, hist>>

\* main.rs:804-813
Spawn ==
    /\ main_pc = "spawn"
    /\ Advance
    /\ worker_pc' = "start"
    /\ fx' = [fx EXCEPT !.worker_spawns = @ + 1]
    /\ UNCHANGED <<tpmcontext, config, ident, identity_file, server, rendezvousVars,
                   symm_key_lock, cvar_notified, worker_result, mount_fs,
                   verify_resp, hist>>

\* Mutant of JoinFailed: an Err returned by the task is taken for a join error.
JoinFailed_OnErr(result) == result.status \in {"panicked", "Err"}

\* main.rs:805-815: map_err(Error::from) turns only the JoinError of a
\* panicked task into the Err that makes try_join! return at once; the
\* Result the task returned is the Ok value of the join.
JoinFailed(result) == result.status = "panicked"

\* Mutant of BothJoined: the join returns as soon as the worker has returned.
BothJoined_WorkerOnly(result, srv) == result.status \in {"Ok", "Err"}

\* main.rs:815: try_join! returns Ok when both tasks have ended.
BothJoined(result, srv) ==
    result.status \in {"Ok", "Err"} /\ srv = "exited"

\* main.rs:815, try_join! of the two spawned tasks: it ends with the join
\* error of a task that panicked, or when both tasks have ended (whatever
\* Result each task returned, which main.rs:817 then drops).
Join ==
    /\ main_pc = "join"
    /\ \/ /\ JoinFailed(worker_result)
          /\ main_result' = Err("Join", "join")
       \/ /\ ~JoinFailed(worker_result)
          /\ BothJoined(worker_result, server)
          /\ main_result' = Ok
    /\ main_pc' = After(main_pc)
    /\ UNCHANGED <<tpmcontext, config, fx, ident, identity_file, server, rendezvousVars,
                   runnerVars, verify_resp, hist>>

\* main.rs:816-817
Stop ==
    /\ main_pc = "stop"
    /\ main_pc' = After(main_pc)
    /\ server' = "stopped"
    /\ fx' = [fx EXCEPT !.stops = @ + 1]
    /\ UNCHANGED <<tpmcontext, config, main_result, ident, identity_file, rendezvousVars,
                   runnerVars, verify_resp, hist>>

\* The server future ends on its own (the accept loop or its workers ended).
ServerExit ==
    /\ server = "running"
    /\ main_pc = "join"
    /\ server' = "exited"
    /\ UNCHANGED <<tpmVars, startupVars, rendezvousVars, runnerVars, verify_resp, hist>>

(***************************************************************************)
(* Cryptographic operations, idealised                                     *)
(***************************************************************************)

\* The half-keys a client posts.
Halves == {0, 1}
UUIDs == {"X", "Y"}

\* Bitwise exclusive or of two naturals.
RECURSIVE Xor(_, _)
Xor(a, b) ==
    IF a = 0 /\ b = 0 THEN 0
    ELSE (((a % 2) + (b % 2)) % 2) + (2 * Xor(a \div 2, b \div 2))

\* The keys two halves can combine to.
Keys == {Xor(u, v) : u \in Halves, v \in Halves}

\* base64::encode and crypto::compute_hmac as used at main.rs:612-616: both
\* are injective, and neither is the identity.
Base64(bytes) == <<"b64", bytes>>
Hmac(key, data) == <<"hmac", key, data>>

\* config.agent_uuid
AgentUuid == "d432fbb3-d2f1-4a97-9ef7-75bd81c00000"

\* The auth tag that verifies a candidate key.
TagOf(key) == Hmac(Base64(key), AgentUuid)

\* main.rs:668, the all-zero tag QuoteData starts with.
ZeroTag == <<"zero">>
Tags == {TagOf(k) : k \in Keys}

\* An AEAD ciphertext sealed under key k; main.rs:629 starts with no bytes.
Seal(k) == <<"aead", k>>
NoPayload == <<>>
\* The tenant seals the payload under one key.
Ciphertexts == {Seal(1)}

\* main.rs:121-131: Some(plaintext), or None for a decryption error.
decrypt_payload(encr, key) ==
    IF encr = Seal(key) THEN Some("payload") ELSE None

(***************************************************************************)
(* Key Rendezvous (the keys handlers are not part of main.rs; modelled     *)
(* from the design of the rendezvous over the QuoteData fields)            *)
(***************************************************************************)

\* Mutant of MutexOf: one mutex guards the maps, the cell, the payload and
\* the tag.
MutexOf_Single ==
    [ukeys |-> "rendezvous", vkeys |-> "rendezvous",
     payload_symm_key |-> "rendezvous", encr_payload |-> "rendezvous",
     auth_tag |-> "rendezvous"]

\* main.rs:96-101 and 631-668: the mutex that guards each field of the
\* rendezvous; every field is wrapped in a Mutex of its own.
MutexOf ==
    [ukeys |-> "ukeys", vkeys |-> "vkeys",
     payload_symm_key |-> "payload_symm_key", encr_payload |-> "encr_payload",
     auth_tag |-> "auth_tag"]

\* main.rs:247-249: the mutex whose guard the runner passes to
\* payload_symm_key_cvar.wait.
CvarMutex == "payload_symm_key"

Rendezvous ==
    [ukeys |-> ukeys, vkeys |-> vkeys, symm_key |-> payload_symm_key,
     auth_tag |-> auth_tag, encr_payload |-> encr_payload, signal |-> FALSE]

EmptyKeySet == [id \in {} |-> 0]

Insert(keyset, uuid, half) ==
    [id \in DOMAIN keyset \cup {uuid} |-> IF id = uuid THEN half ELSE keyset[id]]

\* Mutant of Matching: the auth tag is not verified.
Matching_NoTagCheck(r) == DOMAIN r.ukeys \cap DOMAIN r.vkeys

\* The uuids whose stored halves combine to a key the stored tag verifies.
Matching(r) ==
    {id \in DOMAIN r.ukeys \cap DOMAIN r.vkeys :
        TagOf(Xor(r.ukeys[id], r.vkeys[id])) = r.auth_tag}

\* combine(): the first match is published, signalled, and both maps cleared.
Combine(r) ==
    IF r.symm_key # None \/ Matching(r) = {} THEN r
    ELSE LET id == CHOOSE m \in Matching(r) : TRUE
         IN [r EXCEPT !.symm_key = Some(Xor(r.ukeys[id], r.vkeys[id])),
                      !.ukeys = EmptyKeySet,
                      !.vkeys = EmptyKeySet,
                      !.signal = TRUE]

\* put_u(uuid, u_half, auth_tag, ciphertext); a post after the release is ignored.
PutU(r, uuid, u, tag, ct) ==
    IF r.symm_key # None THEN r
    ELSE Combine([r EXCEPT
            !.encr_payload = IF @ = NoPayload THEN ct ELSE @,
            !.auth_tag = tag,
            !.ukeys = Insert(@, uuid, u)])

\* Mutant of PutV: the V half is stored but no combine is attempted.
PutV_NoCombine(r, uuid, v, tag) ==
    IF r.symm_key # None THEN r
    ELSE [r EXCEPT !.auth_tag = tag, !.vkeys = Insert(@, uuid, v)]

\* put_v(uuid, v_half, auth_tag); a post after the release is ignored.
PutV(r, uuid, v, tag) ==
    IF r.symm_key # None THEN r
    ELSE Combine([r EXCEPT
            !.auth_tag = tag,
            !.vkeys = Insert(@, uuid, v)])

\* verify(challenge)
Verify(key, challenge) ==
    IF key = None THEN <<"NotReady">> ELSE <<"Ok", Hmac(key[1], challenge)>>

\* The handler's effect on the shared state: the rendezvous fields, and a
\* notification of the condition variable for a parked runner.
Publish(r) ==
    /\ ukeys' = r.ukeys
    /\ vkeys' = r.vkeys
    /\ payload_symm_key' = r.symm_key
    /\ auth_tag' = r.auth_tag
    /\ encr_payload' = r.encr_payload
    /\ cvar_notified' = (cvar_notified \/ (r.signal /\ worker_pc = "parked"))

\* POST /keys/ukey
PostU ==
    /\ server = "running"
    /\ symm_key_lock = "free"
    /\ hist.requests < MaxRequests
    /\ \E uuid \in UUIDs, u \in Halves, tag \in Tags, ct \in Ciphertexts :
          /\ Publish(PutU(Rendezvous, uuid, u, tag, ct))
          /\ hist' = [hist EXCEPT !.requests = @ + 1,
                                  !.last_post = <<"u", uuid, u, tag>>]
    /\ UNCHANGED <<tpmVars, startupVars, server, symm_key_lock, worker_pc, worker_result,
                   mount_fs, verify_resp>>

\* POST /keys/vkey
PostV ==
    /\ server = "running"
    /\ symm_key_lock = "free"
    /\ hist.requests < MaxRequests
    /\ \E uuid \in UUIDs, v \in Halves, tag \in Tags :
          /\ Publish(PutV(Rendezvous, uuid, v, tag))
          /\ hist' = [hist EXCEPT !.requests = @ + 1,
                                  !.last_post = <<"v", uuid, v, tag>>]
    /\ UNCHANGED <<tpmVars, startupVars, server, symm_key_lock, worker_pc, worker_result,
                   mount_fs, verify_resp>>

\* GET /keys/verify
GetVerify ==
    /\ server = "running"
    /\ symm_key_lock = "free"
    /\ hist.requests < MaxRequests
    /\ hist' = [hist EXCEPT !.requests = @ + 1]
    /\ verify_resp' = Verify(payload_symm_key, "challenge")
    /\ UNCHANGED <<tpmVars, startupVars, server, rendezvousVars, runnerVars>>

(***************************************************************************)
(* Quote handlers (not part of main.rs; modelled from the design: every    *)
(* TPM use of a handler goes through QuoteData.tpmcontext)                 *)
(***************************************************************************)

\* The server threads that serve quote requests.
QuoteThreads == {"w1", "w2"}

\* Mutant of TpmLockFree: the context is shared without its mutex.
TpmLockFree_NoMutex(t) == TRUE

\* main.rs:92 and 659: tpmcontext is a Mutex<Context>; lock() returns only
\* while no other thread holds the guard.
TpmLockFree(t) == t.holder = None

\* GET /quotes/identity or /quotes/integrity: the handler locks tpmcontext
\* and enters its TPM call.
QuoteBegin ==
    /\ server = "running"
    /\ hist.requests < MaxRequests
    /\ tpmcontext.owner = "mutex"
    /\ TpmLockFree(tpmcontext)
    /\ \E w \in QuoteThreads \ tpmcontext.users :
          tpmcontext' = [tpmcontext EXCEPT !.holder = Some(w),
                                           !.users = @ \cup {w}]
    /\ hist' = [hist EXCEPT !.requests = @ + 1]
    /\ UNCHANGED <<startupVars, server, rendezvousVars, runnerVars, verify_resp>>

\* The handler's TPM call returns and its guard is dropped.
QuoteEnd ==
    /\ \E w \in tpmcontext.users :
          tpmcontext' = [tpmcontext EXCEPT
                            !.holder = IF @ = Some(w) THEN None ELSE @,
                            !.users = @ \ {w}]
    /\ UNCHANGED <<startupVars, server, rendezvousVars, runnerVars,
                   verify_resp, hist>>

(***************************************************************************)
(* The worker task and the Payload Runner: main.rs:239-340                 *)
(***************************************************************************)

Panicked == [status |-> "panicked", kind |-> "", at |-> ""]

\* Mutant of MustWait: the runner waits once before it looks at the cell.
MustWait_WaitFirst(key) == key = None \/ hist.parks = 0

\* Mutant of MustWait: the loop condition is inverted.
MustWait_Inverted(key) == key # None

\* main.rs:248, the condition that keeps the runner in its wait loop.
MustWait(key) == key = None

\* Mutant of AfterWake: an if in place of the while, no second look.
AfterWake_NoRecheck == "decrypt"

\* main.rs:248-250: a woken runner evaluates the loop condition again.
AfterWake == "check"

\* Mutant of AfterRunnerError: the worker enters the runner again.
AfterRunnerError_Retry == "start"

\* Mutant of AfterRunnerError: the error is logged and the runner goes on.
AfterRunnerError_GoOn == "write_key"

\* main.rs:328: an error of the runner is returned by the worker (the ?
\* operator); the runner is not entered again.
AfterRunnerError == "done"

\* Mutant of RunnerFail: the guard is not dropped on the error path.
RunnerFail_KeepLock(kind) ==
    /\ worker_pc' = AfterRunnerError
    /\ worker_result' = Err(kind, worker_pc)
    /\ UNCHANGED symm_key_lock

\* The runner returns an error: the guard of payload_symm_key is dropped.
RunnerFail(kind) ==
    /\ worker_pc' = AfterRunnerError
    /\ worker_result' = Err(kind, worker_pc)
    /\ symm_key_lock' = "free"

\* The runner panics: the guard is dropped while unwinding, which poisons
\* the mutex, and the task ends with a join error.
RunnerPanic ==
    /\ worker_pc' = "done"
    /\ worker_result' = Panicked
    /\ symm_key_lock' = "poisoned"

\* What can happen to the init script: it is not in unzipped/, its mode
\* cannot be set, sh cannot be spawned, or it runs and exits with a status.
ScriptOutcomes ==
    {"missing", "chmod_failed", "spawn_failed", "exit_zero", "exit_nonzero"}

\* main.rs:199-207: the script is executed when it exists, its mode was set
\* and sh was spawned.
Executed(out) == out \in {"exit_zero", "exit_nonzero"}

\* main.rs:191, 199-207: the mode the script is given, the directory it runs
\* in and the status it exits with.
Execution(out) ==
    [mode |-> "0700", cwd |-> "unzipped",
     status |-> IF out = "exit_zero" THEN "zero" ELSE "nonzero"]

\* Mutant of run: a script that exits with a non-zero status is an error.
run_StatusChecked(out) ==
    IF out \in {"chmod_failed", "spawn_failed", "exit_nonzero"}
    THEN Err("Other", "script")
    ELSE Ok

\* main.rs:180-218: run returns Ok when the script does not exist and when
\* it was executed, whatever its exit status (Ok(_) at main.rs:208), and
\* Error::Other when set_permissions or the spawn fails.
run(out) ==
    IF out \in {"chmod_failed", "spawn_failed"}
    THEN Err("Other", "script")
    ELSE Ok

\* Mutant of CellAfterRead: key.take() in place of key.as_ref().
CellAfterTake(cell) == None

\* main.rs:252: key.as_ref() borrows the key and leaves the cell as it is.
CellAfterRead(cell) == cell

\* main.rs:247-253: the mutexes the runner holds; the guard of
\* payload_symm_key is the only one it keeps between its steps.
RunnerHeld == IF symm_key_lock = "runner" THEN {CvarMutex} ELSE {}

\* main.rs:319-331 and 247: the guard of the payload release; when it holds
\* the runner is entered and locks payload_symm_key.
WorkerStart ==
    /\ worker_pc = "start"
    /\ IF PayloadAllowed(config)
       THEN /\ symm_key_lock = "free"
            /\ symm_key_lock' = "runner"
            /\ worker_pc' = "check"
            /\ hist' = [hist EXCEPT !.runs = @ + 1]
       ELSE /\ worker_pc' = "revocation"
            /\ UNCHANGED <<symm_key_lock, hist>>
    /\ UNCHANGED <<tpmVars, startupVars, server, rendezvousVars, cvar_notified,
                   worker_result, mount_fs, verify_resp>>

\* main.rs:248-249: the loop condition; Condvar::wait releases the mutex and
\* parks in one step. A notification sent while nobody waits is not kept.
RunnerCheck ==
    /\ worker_pc = "check"
    /\ IF MustWait(payload_symm_key)
       THEN /\ worker_pc' = "parked"
            /\ symm_key_lock' = "free"
            /\ cvar_notified' = FALSE
            /\ hist' = [hist EXCEPT !.parks = @ + 1]
       ELSE /\ worker_pc' = "decrypt"
            /\ hist' = [hist EXCEPT !.wait_exits = @ + 1]
            /\ UNCHANGED <<symm_key_lock, cvar_notified>>
    /\ UNCHANGED <<tpmVars, startupVars, server, rendezvousVars, worker_result,
                   mount_fs, verify_resp>>

\* main.rs:249: the parked runner is woken by a notification.
RunnerNotified ==
    /\ worker_pc = "parked"
    /\ cvar_notified
    /\ cvar_notified' = FALSE
    /\ worker_pc' = "woken"
    /\ UNCHANGED <<tpmVars, startupVars, server, rendezvousVars, symm_key_lock,
                   worker_result, mount_fs, verify_resp, hist>>

\* main.rs:249: the parked runner wakes spuriously.
RunnerSpurious ==
    /\ worker_pc = "parked"
    /\ ~cvar_notified
    /\ hist.spurious < MaxSpurious
    /\ hist' = [hist EXCEPT !.spurious = @ + 1]
    /\ worker_pc' = "woken"
    /\ UNCHANGED <<tpmVars, startupVars, server, rendezvousVars, symm_key_lock,
                   cvar_notified, worker_result, mount_fs, verify_resp>>

\* main.rs:249: Condvar::wait returns with the mutex held again.
RunnerRelock ==
    /\ worker_pc = "woken"
    /\ symm_key_lock = "free"
    /\ symm_key_lock' = "runner"
    /\ worker_pc' = AfterWake
    /\ hist' = [hist EXCEPT !.wait_exits =
                    IF AfterWake = "check" THEN @ ELSE @ + 1]
    /\ UNCHANGED <<tpmVars, startupVars, server, rendezvousVars, cvar_notified,
                   worker_result, mount_fs, verify_resp>>

\* main.rs:252-253
RunnerDecrypt ==
    /\ worker_pc = "decrypt"
    /\ IF payload_symm_key = None THEN RunnerPanic
       ELSE IF decrypt_payload(encr_payload, payload_symm_key[1]) = None
            THEN RunnerFail("Decrypt")
       ELSE /\ worker_pc' = "setup_unzipped"
            /\ UNCHANGED <<symm_key_lock, worker_result>>
    /\ payload_symm_key' = CellAfterRead(payload_symm_key)
    /\ hist' = [hist EXCEPT !.decrypts = @ + 1]
    /\ UNCHANGED <<tpmVars, startupVars, server, ukeys, vkeys, auth_tag, encr_payload,
                   cvar_notified, mount_fs, verify_resp>>

\* main.rs:255-256 and 136-153
SetupUnzipped ==
    /\ worker_pc = "setup_unzipped"
    /\ \E out \in {"remove_failed", "create_failed", "ok"} :
          CASE out = "remove_failed" ->
                 /\ mount_fs.unzipped
                 /\ RunnerFail("Io") /\ UNCHANGED mount_fs
            [] out = "create_failed" ->
                 /\ RunnerFail("Io")
                 /\ mount_fs' = [unzipped |-> FALSE, key_file |-> None,
                                 payload_file |-> None, extracted |-> FALSE]
            [] out = "ok" ->
                 /\ worker_pc' = "write_key"
                 /\ mount_fs' = [unzipped |-> TRUE, key_file |-> None,
                                 payload_file |-> None, extracted |-> FALSE]
                 /\ UNCHANGED <<symm_key_lock, worker_result>>
    /\ UNCHANGED <<tpmVars, startupVars, server, rendezvousVars, cvar_notified,
                   verify_resp, hist>>

\* main.rs:162-167
WriteKey ==
    /\ worker_pc = "write_key"
    /\ \E out \in {"create_failed", "short_write", "ok"} :
          CASE out = "create_failed" ->
                 RunnerFail("Io") /\ UNCHANGED <<mount_fs, hist>>
            [] out = "short_write" ->
                 /\ RunnerFail("Other")
                 /\ mount_fs' = [mount_fs EXCEPT !.key_file = <<"partial">>]
                 /\ hist' = [hist EXCEPT !.key_writes = @ + 1]
            [] out = "ok" ->
                 /\ worker_pc' = "write_payload"
                 /\ mount_fs' = [mount_fs EXCEPT !.key_file = payload_symm_key]
                 /\ hist' = [hist EXCEPT !.key_writes = @ + 1]
                 /\ UNCHANGED <<symm_key_lock, worker_result>>
    /\ UNCHANGED <<tpmVars, startupVars, server, rendezvousVars, cvar_notified,
                   verify_resp>>

\* main.rs:169-176
WritePayload ==
    /\ worker_pc = "write_payload"
    /\ \E out \in {"create_failed", "short_write", "ok"} :
          CASE out = "create_failed" ->
                 RunnerFail("Io") /\ UNCHANGED <<mount_fs, hist>>
            [] out = "short_write" ->
                 /\ RunnerFail("Other")
                 /\ mount_fs' = [mount_fs EXCEPT !.payload_file = <<"partial">>]
                 /\ hist' = [hist EXCEPT !.payload_writes = @ + 1]
            [] out = "ok" ->
                 /\ worker_pc' = "unzip"
                 /\ mount_fs' = [mount_fs EXCEPT !.payload_file = Some("payload")]
                 /\ hist' = [hist EXCEPT !.payload_writes = @ + 1]
                 /\ UNCHANGED <<symm_key_lock, worker_result>>
    /\ UNCHANGED <<tpmVars, startupVars, server, rendezvousVars, cvar_notified,
                   verify_resp>>

\* main.rs:265 and 222-237
OptionalUnzip ==
    /\ worker_pc = "unzip"
    /\ IF ~config.extract_payload_zip
       THEN /\ worker_pc' = "script"
            /\ UNCHANGED <<symm_key_lock, worker_result, mount_fs>>
       ELSE \E ok \in BOOLEAN :
              IF ok
              THEN /\ worker_pc' = "script"
                   /\ mount_fs' = [mount_fs EXCEPT !.extracted = TRUE]
                   /\ UNCHANGED <<symm_key_lock, worker_result>>
              ELSE RunnerFail("Io") /\ UNCHANGED mount_fs
    /\ UNCHANGED <<tpmVars, startupVars, server, rendezvousVars, cvar_notified,
                   verify_resp, hist>>

\* main.rs:266-275 and 180-218
RunScript ==
    /\ worker_pc = "script"
    /\ IF config.payload_script = ""
       THEN /\ worker_pc' = "action_list"
            /\ UNCHANGED <<symm_key_lock, worker_result, hist>>
       ELSE \E out \in ScriptOutcomes :
              /\ hist' = IF Executed(out)
                          THEN [hist EXCEPT !.script_runs = @ + 1,
                                            !.script = Some(Execution(out))]
                          ELSE hist
              /\ IF run(out).status = "Ok"
                 THEN /\ worker_pc' = "action_list"
                      /\ UNCHANGED <<symm_key_lock, worker_result>>
                 ELSE RunnerFail(run(out).kind)
    /\ UNCHANGED <<tpmVars, startupVars, server, rendezvousVars, cvar_notified,
                   mount_fs, verify_resp>>

\* main.rs:277-309: the runner returns Ok and its guard is dropped.
ActionList ==
    /\ worker_pc = "action_list"
    /\ \E out \in {"no_file", "read_failed", "chmod_failed", "ok"} :
          CASE out = "read_failed" -> RunnerPanic
            [] out = "chmod_failed" -> RunnerFail("Permission")
            [] out \in {"no_file", "ok"} ->
                 /\ worker_pc' = "revocation"
                 /\ symm_key_lock' = "free"
                 /\ UNCHANGED worker_result
    /\ UNCHANGED <<tpmVars, startupVars, server, rendezvousVars, cvar_notified,
                   mount_fs, verify_resp, hist>>

\* main.rs:333-339
WorkerRevocation ==
    /\ worker_pc = "revocation"
    /\ IF config.run_revocation
       THEN worker_pc' = "listening" /\ UNCHANGED worker_result
       ELSE worker_pc' = "done" /\ worker_result' = Ok
    /\ UNCHANGED <<tpmVars, startupVars, server, rendezvousVars, symm_key_lock,
                   cvar_notified, mount_fs, verify_resp, hist>>

\* main.rs:336: the revocation service returns, and the worker with it.
RevocationExit ==
    /\ worker_pc = "listening"
    /\ worker_pc' = "done"
    /\ \E ok \in BOOLEAN :
          worker_result' = IF ok THEN Ok ELSE Err("Revocation", "listening")
    /\ UNCHANGED <<tpmVars, startupVars, server, rendezvousVars, symm_key_lock,
                   cvar_notified, mount_fs, verify_resp, hist>>

(***************************************************************************)
(* The state machine                                                       *)
(***************************************************************************)

Init ==
    /\ config \in Configs
    /\ main_pc = "build"
    /\ main_result = Running
    /\ fx = [mounted |-> FALSE, chowned |-> FALSE, dropped |-> FALSE,
             tpm_ctx |-> FALSE, tpm_ops |-> 0, ek |-> "none",
             ak_creations |-> 0, ak_loads |-> 0, identity_writes |-> 0,
             register_calls |-> 0, registered |-> FALSE, registered_ak |-> "none",
             credential |-> FALSE, activate_calls |-> 0, activated |-> FALSE,
             binds |-> 0, bound_tls |-> FALSE, worker_spawns |-> 0, stops |-> 0]
    /\ ident = [agent_data |-> "unread", ak |-> "none", nk |-> "none",
                cert |-> "none"]
    /\ identity_file =
          IF config.agent_data = "absent"
          THEN [present |-> FALSE, algs |-> "none", ak |-> "none",
                nk |-> "none", cert |-> "none"]
          ELSE [present |-> TRUE,
                algs |-> IF config.agent_data = "valid" THEN "current" ELSE "other",
                ak |-> "persisted", nk |-> "persisted", cert |-> "persisted"]
    /\ server = "unbound"
    /\ ukeys = EmptyKeySet
    /\ vkeys = EmptyKeySet
    /\ payload_symm_key = None
    /\ auth_tag = ZeroTag
    /\ encr_payload = NoPayload
    /\ symm_key_lock = "free"
    /\ cvar_notified = FALSE
    /\ worker_pc = "idle"
    /\ worker_result = Running
    /\ mount_fs = [unzipped |-> FALSE, key_file |-> None, payload_file |-> None,
                   extracted |-> FALSE]
    /\ verify_resp = <<"none">>
    /\ tpmcontext = [owner |-> "none", holder |-> None, users |-> {}]
    /\ hist = [requests |-> 0, last_post |-> <<"none">>,
               runs |-> 0, parks |-> 0, spurious |-> 0, wait_exits |-> 0,
               decrypts |-> 0, key_writes |-> 0, payload_writes |-> 0,
               script_runs |-> 0,
               script |-> None]

Next ==
    \/ Build \/ CheckPayloadConfig \/ Mount \/ Chown \/ RunAs \/ TpmCtx
    \/ Vendor \/ SetAuth \/ CreateEk \/ ValidateAgentData \/ OldAk \/ NewAk
    \/ NodeKeypair \/ MtlsCert \/ StoreAgentData \/ Register
    \/ ActivateCredential \/ FlushEk \/ Activate \/ Paths \/ Bind \/ Spawn
    \/ Join \/ Stop \/ ServerExit
    \/ PostU \/ PostV \/ GetVerify
    \/ WorkerStart \/ RunnerCheck \/ RunnerNotified
    \/ RunnerSpurious \/ RunnerRelock \/ RunnerDecrypt \/ SetupUnzipped
    \/ WriteKey \/ WritePayload \/ OptionalUnzip \/ RunScript \/ ActionList
    \/ WorkerRevocation \/ RevocationExit

Spec == Init /\ [][Next]_vars

\* The steps of the worker up to the end of its wait. The runtime polls a
\* spawned task, a notified thread is scheduled again, and the handlers hold
\* the mutex only for the time of one request.
RunnerWait == WorkerStart \/ RunnerCheck \/ RunnerNotified \/ RunnerRelock

FairSpec == Spec /\ WF_vars(RunnerWait)

\* The configurations that vary what the TPM is used for (the EK handle,
\* the persisted identity, the privilege drop), and one with the payload
\* script and the revocation listener.
TpmConfigs ==
    StartupConfigs \cup
    {c \in PayloadConfigs :
        /\ c.mtls_enabled /\ ~c.enable_insecure_payload
        /\ c.payload_script # "" /\ c.run_revocation}

TpmInit == Init /\ config \in TpmConfigs

\* The agent with quote requests among its requests.
TpmNext == Next \/ QuoteBegin \/ QuoteEnd

TpmSpec == TpmInit /\ [][TpmNext]_vars

(***************************************************************************)
(* Properties                                                              *)
(***************************************************************************)

\* No startup step after the configuration check has had an effect.
NothingStarted ==
    /\ ~fx.mounted /\ ~fx.chowned /\ ~fx.dropped
    /\ ~fx.tpm_ctx /\ fx.tpm_ops = 0 /\ fx.ek = "none"
    /\ fx.identity_writes = 0
    /\ fx.register_calls = 0 /\ fx.activate_calls = 0
    /\ fx.binds = 0 /\ server = "unbound"
    /\ fx.worker_spawns = 0 /\ worker_pc = "idle"

\* C1: with mTLS off, no insecure override and a payload script configured,
\* main() gets no further than the configuration check: once the
\* configuration is loaded it returns a Configuration error from that check,
\* and the secure mount, the privilege drop, the TPM, the identity file, the
\* registrar, the server and the worker are never touched.
C1_RejectedConfigStopsStartup ==
    (/\ ~config.mtls_enabled
     /\ ~config.enable_insecure_payload
     /\ config.payload_script # "")
    => /\ NothingStarted
       /\ main_pc \in {"build", "check", "done"}
       /\ main_pc = "done" =>
             main_result \in {Err("Build", "build"), Err("Configuration", "check")}

C1_Witness ==
    /\ ~config.mtls_enabled
    /\ ~config.enable_insecure_payload
    /\ config.payload_script # ""
    /\ main_pc = "done"
    /\ main_result = Err("Configuration", "check")

\* The worker has not entered the payload release procedure.
RunnerNeverEntered ==
    /\ hist.runs = 0 /\ hist.parks = 0 /\ hist.wait_exits = 0
    /\ hist.decrypts = 0 /\ hist.key_writes = 0 /\ hist.payload_writes = 0
    /\ hist.script_runs = 0
    /\ ~mount_fs.unzipped /\ mount_fs.key_file = None
    /\ mount_fs.payload_file = None
    /\ worker_pc \in {"idle", "start", "revocation", "listening", "done"}
    /\ symm_key_lock = "free"

\* C2 as stated: with mTLS off and no insecure override the worker never
\* enters the release procedure and, when it returns, returns without error.
C2_Original ==
    (~config.mtls_enabled /\ ~config.enable_insecure_payload)
    => /\ RunnerNeverEntered
       /\ worker_pc = "done" => worker_result = Ok

\* C2 amended: with mTLS off and no insecure override the worker never
\* enters the release procedure, whatever keys are posted; it then returns
\* Ok when no revocation listener is enabled, and otherwise runs the
\* listener and returns what the listener returns.
C2_GuardSkipsPayloadRelease ==
    (~config.mtls_enabled /\ ~config.enable_insecure_payload)
    => /\ RunnerNeverEntered
       /\ worker_pc = "listening" => config.run_revocation
       /\ worker_pc = "done" =>
             \/ worker_result = Ok
             \/ /\ config.run_revocation
                /\ worker_result = Err("Revocation", "listening")

C2_Witness ==
    /\ ~config.mtls_enabled /\ ~config.enable_insecure_payload
    /\ payload_symm_key # None
    /\ worker_pc = "done" /\ worker_result = Ok
    /\ hist.key_writes = 0

\* The positions of the runner after its wait loop.
PastWait ==
    {"decrypt", "setup_unzipped", "write_key", "write_payload", "unzip",
     "script", "action_list"}

\* The steps of the wait loop: with the cell absent the loop condition
\* parks the runner and releases the mutex; a parked runner moves only by
\* being woken; a woken runner evaluates the loop condition again.
WaitStep ==
    /\ (worker_pc = "check" /\ payload_symm_key = None /\ worker_pc' # worker_pc)
         => (worker_pc' = "parked" /\ symm_key_lock' = "free")
    /\ worker_pc = "parked" => worker_pc' \in {"parked", "woken"}
    /\ worker_pc = "woken" => worker_pc' \in {"woken", "check"}

\* C3: the runner is past its wait loop, and has decrypted, only in states
\* where payload_symm_key is present; with the cell absent the loop condition
\* parks the runner on the condition variable with the mutex released, a
\* parked runner moves only by being woken, and a woken runner (spuriously
\* or not) takes the mutex again and evaluates the loop condition again.
C3_DecryptOnlyWithKey ==
    /\ [](worker_pc \in PastWait => payload_symm_key # None)
    /\ [](hist.decrypts > 0 => payload_symm_key # None)
    /\ [](worker_pc = "parked" => symm_key_lock # "runner")
    /\ [][WaitStep]_vars

\* The runner was woken spuriously, parked again, and was then released.
C3_Witness ==
    /\ worker_pc = "decrypt"
    /\ payload_symm_key # None
    /\ hist.spurious = 1
    /\ hist.parks = 2

\* The key is published and a started runner is not yet past its wait.
ReleasePending ==
    /\ payload_symm_key # None
    /\ config.mtls_enabled \/ config.enable_insecure_payload
    /\ worker_pc \in {"start", "check", "parked", "woken"}

\* C4: no wakeup is lost. The runner parks only with the cell absent; a
\* parked runner whose key has been published has a notification pending;
\* once the key is published a runner that has been started (with the
\* payload guard true) and is not past its wait gets past it; and it leaves
\* the wait at most once.
C4_NoLostWakeup ==
    /\ [][(worker_pc # "parked" /\ worker_pc' = "parked")
             => payload_symm_key = None]_vars
    /\ []((worker_pc = "parked" /\ payload_symm_key # None) => cvar_notified)
    /\ [](hist.wait_exits <= 1)
    /\ ReleasePending ~> (hist.wait_exits = 1)

\* The key was published before the runner reached its wait: it did not park.
C4_Witness ==
    /\ worker_pc = "decrypt"
    /\ payload_symm_key # None
    /\ hist.parks = 0
    /\ hist.wait_exits = 1

\* C5: the key file and the payload file are each written at most once; the
\* worker is spawned once, the runner is entered once and leaves its wait
\* once, however many requests arrive.
C5_FilesWrittenAtMostOnce ==
    /\ hist.key_writes <= 1
    /\ hist.payload_writes <= 1
    /\ fx.worker_spawns <= 1
    /\ hist.runs <= 1
    /\ hist.wait_exits <= 1
    /\ hist.decrypts <= 1

\* Both files are written, the worker has returned, and a request came in
\* after the release.
C5_Witness ==
    /\ hist.key_writes = 1
    /\ hist.payload_writes = 1
    /\ worker_pc = "done"
    /\ hist.requests = MaxRequests
    /\ hist.last_post[4] # auth_tag

\* A step keeps a published key, and a step of the worker leaves the cell alone.
CellStep ==
    /\ payload_symm_key # None => payload_symm_key' = payload_symm_key
    /\ worker_pc' # worker_pc => payload_symm_key' = payload_symm_key

\* C6: payload_symm_key is write-once: once present it is never changed or
\* cleared by any later request or by the runner; no step of the worker
\* writes the cell; and the runner leaves its wait at most once.
C6_KeyCellWriteOnce ==
    /\ [][CellStep]_vars
    /\ [](hist.wait_exits <= 1)

\* A post that came in after the release was ignored, and the runner has
\* read the key and finished.
C6_Witness ==
    /\ payload_symm_key # None
    /\ hist.last_post[1] \in {"u", "v"}
    /\ hist.last_post[4] # auth_tag
    /\ hist.decrypts = 1
    /\ worker_pc = "done"

\* The U half (V half) held under uuid id once the post p has been stored:
\* the posted half if p is a U post (V post) for id, else the stored one.
UHalfWith(p, id) ==
    IF p[1] = "u" /\ p[2] = id THEN Some(p[3])
    ELSE IF id \in DOMAIN ukeys THEN Some(ukeys[id]) ELSE None

VHalfWith(p, id) ==
    IF p[1] = "v" /\ p[2] = id THEN Some(p[3])
    ELSE IF id \in DOMAIN vkeys THEN Some(vkeys[id]) ELSE None

\* The keys of the same-uuid pairs that verify under the tag of post p.
VerifiedKeys(p) ==
    {Xor(UHalfWith(p, id)[1], VHalfWith(p, id)[1]) :
        id \in {i \in UUIDs :
                   /\ UHalfWith(p, i) # None
                   /\ VHalfWith(p, i) # None
                   /\ Hmac(Base64(Xor(UHalfWith(p, i)[1], VHalfWith(p, i)[1])),
                           AgentUuid) = p[4]}}

\* A step that publishes a key is a post, and the key is u XOR v of two
\* halves held under one uuid whose tag verifies.
PublishStep ==
    (payload_symm_key = None /\ payload_symm_key' # None)
    => /\ hist'.requests = hist.requests + 1
       /\ hist'.last_post[1] \in {"u", "v"}
       /\ payload_symm_key'[1] \in VerifiedKeys(hist'.last_post)

\* C7: whenever a key is published it is u XOR v of a U half and a V half
\* held under the same uuid, and HMAC(base64(u XOR v), agent_uuid) equals the
\* auth tag in force; halves of different uuids and pairs whose tag does not
\* verify never publish a key.
C7_PublishedKeyIsVerifiedPair ==
    /\ [][PublishStep]_vars
    /\ [](payload_symm_key # None
            => Hmac(Base64(payload_symm_key[1]), AgentUuid) = auth_tag)

\* A U post and then a V post have published a key.
C7_Witness ==
    /\ payload_symm_key # None
    /\ hist.requests = 2
    /\ hist.last_post[1] = "v"
    /\ payload_symm_key[1] \in {Xor(u, hist.last_post[3]) : u \in Halves}
    /\ Hmac(Base64(payload_symm_key[1]), AgentUuid) = auth_tag

\* No half is stored under id, and no stored pair combines to key k.
NoPriorHalves(r, id, k) ==
    /\ id \notin DOMAIN r.ukeys
    /\ id \notin DOMAIN r.vkeys
    /\ \A i \in DOMAIN r.ukeys \cap DOMAIN r.vkeys : Xor(r.ukeys[i], r.vkeys[i]) # k

\* C8: in every reachable state with no key released, for every uuid, pair
\* of halves and ciphertext, with the tag that verifies the pair: posting U
\* then V and posting V then U end in the same state, with u XOR v
\* published, both maps cleared and the condition signalled; and when no
\* half of the pair is stored yet the first post alone releases nothing, so
\* the half that arrives second triggers the combine.
C8_ArrivalOrderIndependent ==
    payload_symm_key = None =>
      \A id \in UUIDs, u \in Halves, v \in Halves, ct \in Ciphertexts :
        LET r == Rendezvous
            k == Xor(u, v)
            t == Hmac(Base64(k), AgentUuid)
            afterU == PutU(r, id, u, t, ct)
            afterV == PutV(r, id, v, t)
            uv == PutV(afterU, id, v, t)
            vu == PutU(afterV, id, u, t, ct)
        IN /\ uv = vu
           /\ uv.symm_key = Some(k)
           /\ uv.ukeys = EmptyKeySet /\ uv.vkeys = EmptyKeySet
           /\ uv.signal
           /\ NoPriorHalves(r, id, k) =>
                 /\ afterU.symm_key = None /\ ~afterU.signal
                 /\ afterV.symm_key = None /\ ~afterV.signal

\* V was posted first and the U post that followed released the key and
\* the runner.
C8_Witness ==
    /\ payload_symm_key # None
    /\ hist.requests = 2
    /\ hist.last_post[1] = "u"
    /\ ukeys = EmptyKeySet /\ vkeys = EmptyKeySet
    /\ hist.parks = 1 /\ hist.wait_exits = 1

\* A step that completes no verifying pair publishes no key.
NoPublishStep ==
    (payload_symm_key = None /\ VerifiedKeys(hist'.last_post) = {})
    => payload_symm_key' = None

\* The runner has neither got past its wait nor touched the secure mount,
\* and the worker has not ended.
RunnerBlocked ==
    /\ worker_pc \in {"idle", "start", "check", "parked", "woken"}
    /\ worker_result = Running
    /\ hist.wait_exits = 0 /\ hist.decrypts = 0
    /\ hist.key_writes = 0 /\ hist.payload_writes = 0
    /\ ~mount_fs.unzipped /\ mount_fs.key_file = None
    /\ mount_fs.payload_file = None

\* C9: a post that completes no pair verifying under its auth tag publishes
\* no key; and as long as no key is published verify answers NotReady and
\* the runner (when the payload guard lets it run) stays in its wait: it has
\* not decrypted, has not touched the secure mount and has not ended.
C9_NoVerifiedPairNoRelease ==
    /\ [][NoPublishStep]_vars
    /\ [](payload_symm_key = None =>
            /\ Verify(payload_symm_key, "challenge") = <<"NotReady">>
            /\ verify_resp \in {<<"none">>, <<"NotReady">>}
            /\ (config.mtls_enabled \/ config.enable_insecure_payload)
                 => RunnerBlocked)

\* Both halves of a uuid are stored with a tag that does not verify them;
\* verify has answered NotReady and the runner is parked.
C9_Witness ==
    /\ payload_symm_key = None
    /\ \E id \in DOMAIN ukeys \cap DOMAIN vkeys :
          Hmac(Base64(Xor(ukeys[id], vkeys[id])), AgentUuid) # auth_tag
    /\ verify_resp = <<"NotReady">>
    /\ worker_pc = "parked"

\* C10: the server is bound only after register, credential activation and
\* activate have succeeded, in that order; a request is served only by an
\* agent that is registered and activated.
C10_BindAfterActivation ==
    /\ fx.credential => fx.registered
    /\ fx.activated => fx.credential
    /\ (server # "unbound" \/ fx.binds > 0) => (fx.registered /\ fx.activated)
    /\ (main_pc = "bind") => (fx.registered /\ fx.activated)
    /\ hist.requests > 0 => (fx.registered /\ fx.activated)
    /\ fx.register_calls <= 1 /\ fx.activate_calls <= 1

\* A request is being served by the bound, activated agent.
C10_Witness ==
    /\ server = "running"
    /\ fx.registered /\ fx.activated
    /\ hist.requests > 0

\* C11: the registrar is contacted only after the identity file has been
\* written by this startup, with the AK in use; a failed write ends main()
\* with an Io error before any registrar call.
C11_IdentityStoredBeforeRegister ==
    /\ (main_pc = "register" \/ fx.register_calls > 0 \/ fx.activate_calls > 0) =>
          /\ fx.identity_writes = 1
          /\ identity_file.present
          /\ identity_file.algs = "current"
          /\ identity_file.ak = ident.ak
    /\ (main_result.status = "Err" /\ main_result.at = "store") =>
          /\ main_result.kind = "Io"
          /\ main_pc = "done"
          /\ fx.identity_writes = 0
          /\ fx.register_calls = 0 /\ fx.activate_calls = 0

\* A first start has written its identity file and then registered.
C11_Witness ==
    /\ config.agent_data = "absent"
    /\ fx.registered /\ fx.register_calls = 1
    /\ fx.identity_writes = 1
    /\ identity_file.present /\ identity_file.ak = "fresh"

\* C12: with run_as configured, the mount is chowned only once it exists,
\* privileges are dropped only once the mount is chowned, and the server is
\* bound only with privileges dropped; a failed chown or a failed drop ends
\* main() with the server unbound.
C12_PrivilegeDropOrder ==
    config.run_as # None =>
      /\ fx.chowned => fx.mounted
      /\ fx.dropped => (fx.mounted /\ fx.chowned)
      /\ (main_pc = "bind" \/ fx.binds > 0 \/ server # "unbound") => fx.dropped
      /\ (main_result.status = "Err" /\ main_result.at \in {"chown", "run_as"}) =>
            /\ main_result.kind =
                  (IF main_result.at = "chown" THEN "Permission" ELSE "Configuration")
            /\ main_pc = "done"
            /\ ~fx.dropped
            /\ fx.binds = 0 /\ server = "unbound"

\* The server runs as the drop-to user.
C12_Witness ==
    /\ config.run_as # None
    /\ fx.mounted /\ fx.chowned /\ fx.dropped
    /\ server = "running"

\* main() returned an error from a startup step.
StartupFailed == main_result.status = "Err" /\ main_result.at # "join"

\* No step that follows step `at` in main() has had an effect.
LaterStepsNotRun(at) ==
    LET i == StepIndex(at)
    IN /\ i <= StepIndex("mount") => ~fx.mounted
       /\ i <= StepIndex("chown") => ~fx.chowned
       /\ i <= StepIndex("run_as") => ~fx.dropped
       /\ i <= StepIndex("tpm_ctx") => (~fx.tpm_ctx /\ fx.tpm_ops = 0)
       /\ i <= StepIndex("create_ek") => fx.ek = "none"
       /\ i <= StepIndex("old_ak") => (fx.ak_loads = 0 /\ ident.ak = "none")
       /\ i <= StepIndex("new_ak") => ident.ak # "fresh"
       /\ i <= StepIndex("nk") => ident.nk = "none"
       /\ i <= StepIndex("mtls") => ident.cert = "none"
       /\ i <= StepIndex("store") => fx.identity_writes = 0
       /\ i < StepIndex("register") => fx.register_calls = 0
       /\ i <= StepIndex("register") => ~fx.registered
       /\ i <= StepIndex("activate_credential") => ~fx.credential
       /\ i <= StepIndex("flush_ek") => fx.ek # "flushed"
       /\ i < StepIndex("activate") => fx.activate_calls = 0
       /\ i <= StepIndex("activate") => ~fx.activated
       /\ i <= StepIndex("bind") => (fx.binds = 0 /\ server = "unbound")
       /\ fx.worker_spawns = 0 /\ worker_pc = "idle"

\* Once main() has returned it executes nothing more.
ReturnedStep ==
    main_pc = "done" =>
      UNCHANGED <<main_pc, main_result, fx, ident, identity_file, server>>

WorkerReturned == worker_pc = "done" /\ worker_result.status \in {"Ok", "Err"}

\* C14 as stated: the worker task returning, with success or with an error,
\* while the server is still running makes try_join! return, so that the
\* stop signal that follows it is sent to the server.
C14_Original ==
    (main_pc = "join" /\ WorkerReturned /\ server = "running")
    => (JoinFailed(worker_result) \/ BothJoined(worker_result, server))

\* try_join! returns only on a panicked task or with both tasks ended.
JoinReturnStep ==
    (main_pc = "join" /\ main_pc' # "join")
    => \/ worker_result.status = "panicked"
       \/ WorkerReturned /\ server = "exited"

\* A running server whose worker has returned is ended by nothing but
\* its own exit.
ServerOutlivesWorkerStep ==
    (server = "running" /\ WorkerReturned) => server' \in {"running", "exited"}

\* C14 amended: the server handle is signalled to stop exactly once, after
\* try_join! has returned and before main() returns; try_join! returns when
\* a task has panicked or when both the server task and the worker task
\* have ended, so the worker returning (Ok or Err) while the server is
\* still running does not stop the server.
C14_StopAfterJoinReturns ==
    /\ [](server = "stopped" <=> fx.stops = 1)
    /\ [](fx.stops \in {0, 1})
    /\ []((main_pc = "done" /\ fx.worker_spawns = 1) => server = "stopped")
    /\ [](server = "stopped" => main_pc = "done")
    /\ [][JoinReturnStep]_vars
    /\ [][ServerOutlivesWorkerStep]_vars

\* The worker returned an error, the server later ended on its own, and
\* the handle was then signalled to stop.
C14_Witness ==
    /\ server = "stopped"
    /\ worker_result.status = "Err"
    /\ main_result = Ok

\* The Payload Runner returned an error.
RunnerError ==
    /\ worker_pc = "done"
    /\ worker_result.status = "Err"
    /\ worker_result.at \in {"decrypt", "setup_unzipped", "write_key",
                              "write_payload", "unzip", "script", "action_list"}

\* With a runner error the running server ends only by its own exit.
RunnerErrorStep ==
    (RunnerError /\ server = "running") => server' \in {"running", "exited"}

\* C15: an error returned by the Payload Runner ends the worker only: it is
\* never a join error, the mutex of the key is released, try_join! keeps
\* waiting for the server, and the running server goes on serving key
\* requests.
C15_RunnerErrorLeavesServer ==
    /\ [](RunnerError =>
            /\ symm_key_lock = "free"
            /\ main_pc \in {"join", "stop", "done"}
            /\ main_result.status # "Err"
            /\ server \in {"running", "exited", "stopped"}
            /\ server = "running" =>
                  /\ main_pc = "join" /\ ~ENABLED Join
                  /\ hist.requests < MaxRequests => ENABLED GetVerify)
    /\ [][RunnerErrorStep]_vars

\* Decryption failed and the server is still serving.
C15_Witness ==
    /\ worker_result = Err("Decrypt", "decrypt")
    /\ worker_pc = "done"
    /\ server = "running"
    /\ ENABLED GetVerify

\* The cold-start configuration.
ColdStart ==
    /\ ~config.mtls_enabled
    /\ config.payload_script = ""
    /\ ~config.enable_insecure_payload

\* C16: on a cold start the configuration check passes, the server is bound
\* without TLS, the worker skips the payload release (no wait, nothing
\* written) and returns Ok when no revocation listener runs, and the server
\* it leaves behind stays bound and serving.
C16_ColdStart ==
    ColdStart =>
      /\ main_result # Err("Configuration", "check")
      /\ fx.binds > 0 => ~fx.bound_tls
      /\ RunnerNeverEntered
      /\ (worker_pc = "done" /\ ~config.run_revocation) => worker_result = Ok
      /\ (worker_pc = "done" /\ server = "running") =>
            /\ main_pc = "join" /\ ~ENABLED Join
            /\ hist.requests < MaxRequests => ENABLED GetVerify

\* The worker has returned and the plain-HTTP server has served a request.
C16_Witness ==
    /\ ColdStart
    /\ worker_pc = "done" /\ worker_result = Ok
    /\ server = "running" /\ ~fx.bound_tls
    /\ verify_resp = <<"NotReady">>
    /\ ENABLED GetVerify

\* An AK loaded from the persisted identity stays the AK in use: no AK is
\* created and no second load is made.
LoadedAkKeptStep ==
    ident.ak = "persisted" =>
      /\ ident'.ak = "persisted"
      /\ fx'.ak_creations = 0 /\ fx'.ak_loads = 1

\* C17: on a restart with a persisted identity that is valid for the
\* configured algorithms and whose AK blob has loaded, startup creates no AK
\* and loads exactly one, takes the node key pair from the persisted
\* identity, and contacts the registrar with one register and one activate
\* that carry the persisted AK.
C17_RestartReusesIdentity ==
    /\ []((config.agent_data = "valid" /\ ident.ak = "persisted") =>
            /\ fx.ak_creations = 0 /\ fx.ak_loads = 1
            /\ ident.nk \in {"none", "persisted"}
            /\ (main_pc \in {"mtls", "store", "register"}) => ident.nk = "persisted"
            /\ fx.register_calls <= 1 /\ fx.activate_calls <= 1
            /\ fx.register_calls > 0 =>
                  (identity_file.ak = "persisted" /\ identity_file.nk = "persisted")
            /\ fx.registered => fx.registered_ak = "persisted"
            /\ fx.activated => (fx.register_calls = 1 /\ fx.activate_calls = 1))
    /\ [][LoadedAkKeptStep]_vars

\* A restart has registered and activated with the persisted AK.
C17_Witness ==
    /\ config.agent_data = "valid"
    /\ fx.activated
    /\ fx.ak_creations = 0 /\ fx.ak_loads = 1
    /\ ident.ak = "persisted" /\ ident.nk = "persisted"
    /\ fx.registered_ak = "persisted"
    /\ fx.register_calls = 1 /\ fx.activate_calls = 1

\* The persisted identity was discarded: there was no file, the file was
\* not valid for the configured algorithms, or its AK blob failed to load.
IdentityDiscarded ==
    \/ config.agent_data \in {"absent", "invalid"} /\ ident.agent_data # "unread"
    \/ /\ config.agent_data = "valid"
       /\ fx.ak_loads >= 1
       /\ ident.ak # "persisted"

\* C18 as stated: whenever the persisted identity was discarded, the AK is
\* created afresh and neither the persisted node key pair nor the persisted
\* certificate is taken into use.
C18_Original ==
    IdentityDiscarded =>
      /\ ident.ak \in {"none", "fresh"}
      /\ ident.nk \in {"none", "fresh"}
      /\ ident.cert \in {"none", "fresh"}

\* The persisted AK blob failed to load: a fresh AK is registered together
\* with the persisted node key pair.
C18_Witness ==
    /\ config.agent_data = "valid"
    /\ fx.ak_creations = 1 /\ ident.ak = "fresh"
    /\ ident.nk = "persisted"
    /\ fx.registered /\ fx.registered_ak = "fresh"

\* C19 as stated: no failure to extract the AK, the node key pair or the
\* certificate from the persisted identity makes main() return an error.
C19_Original ==
    main_result.status = "Err" =>
      ~(/\ main_result.kind = "Identity"
        /\ main_result.at \in {"old_ak", "nk", "mtls"})

\* The AK could not be extracted from a valid persisted identity: main()
\* has returned the error without contacting the registrar.
C19_Witness ==
    /\ config.agent_data = "valid"
    /\ main_result = Err("Identity", "old_ak")
    /\ main_pc = "done"
    /\ fx.ak_creations = 0 /\ fx.register_calls = 0

\* C20: from the registrar call on, the identity file written by this
\* startup holds the configured algorithms, the AK in use (the persisted one
\* that was loaded, or the one created), the node key pair and the
\* certificate in use; the file is written once on every startup that gets
\* to the registrar, also when the persisted identity is reused.
C20_IdentityFileMatchesAk ==
    (main_pc = "register" \/ fx.register_calls > 0) =>
      /\ fx.identity_writes = 1
      /\ identity_file.present
      /\ identity_file.algs = "current"
      /\ ident.ak \in {"persisted", "fresh"}
      /\ identity_file.ak = ident.ak
      /\ identity_file.nk = ident.nk
      /\ identity_file.cert = ident.cert
      /\ ident.ak = "persisted" => (fx.ak_creations = 0 /\ fx.ak_loads = 1)
      /\ ident.ak = "fresh" => fx.ak_creations = 1
      /\ fx.registered => fx.registered_ak = identity_file.ak

\* A persisted blob that did not load was replaced in the file by the AK
\* created, before the agent registered and bound its server.
C20_Witness ==
    /\ config.agent_data = "valid"
    /\ ident.ak = "fresh"
    /\ identity_file.ak = "fresh"
    /\ fx.registered /\ server = "running"

\* The EK becomes flushed only by the flush step, with the credential
\* activated, as one TPM operation.
EkFlushStep ==
    (fx.ek # "flushed" /\ fx'.ek = "flushed")
    => /\ main_pc = "flush_ek"
       /\ fx.credential
       /\ fx'.tpm_ops = fx.tpm_ops + 1

\* C21: a persistent EK handle given by the configuration is never flushed;
\* an EK that main() created is flushed by the step that follows the
\* successful credential activation, and by no other step; once the EK is
\* flushed no step that uses the EK handle is executed.
C21_EkFlushedIffTransient ==
    /\ [](config.ek_handle # None => fx.ek \in {"none", "persistent"})
    /\ [](fx.ek = "flushed" =>
            /\ config.ek_handle = None
            /\ fx.credential
            /\ main_pc \notin EkUsers)
    /\ []((/\ config.ek_handle = None
            /\ fx.credential
            /\ main_pc # "flush_ek"
            /\ main_result # Err("Tpm", "flush_ek")) => fx.ek = "flushed")
    /\ [](main_pc = "flush_ek" => (fx.credential /\ fx.ek # "flushed"))
    /\ [][EkFlushStep]_vars

\* The EK that main() created was flushed before the agent was activated.
C21_Witness ==
    /\ config.ek_handle = None
    /\ fx.ek = "flushed"
    /\ fx.credential /\ fx.activated

\* A TPM operation of main() is made with the context owned by main(),
\* before the server and the worker exist and with no handler in the TPM.
TpmStartupStep ==
    fx'.tpm_ops # fx.tpm_ops =>
      /\ tpmcontext'.owner = "main"
      /\ server = "unbound" /\ server' = "unbound"
      /\ worker_pc = "idle" /\ worker_pc' = "idle"
      /\ tpmcontext.users = {}

\* C22: main() makes its TPM operations while it alone owns the context
\* and before the server and the worker exist; once they exist the context
\* is inside its mutex, main() makes no TPM operation, and at most one
\* thread, the holder of the mutex, is inside a TPM call.
C22_TpmSingleUser ==
    /\ [][TpmStartupStep]_vars
    /\ []((server # "unbound" \/ worker_pc # "idle") => tpmcontext.owner = "mutex")
    /\ [](fx.tpm_ops > 0 => tpmcontext.owner # "none")
    /\ [](Cardinality(tpmcontext.users) <= 1)
    /\ [](\A w \in tpmcontext.users :
             /\ tpmcontext.owner = "mutex"
             /\ tpmcontext.holder = Some(w))

\* A second quote request is inside the TPM after the first has left it.
C22_Witness ==
    /\ server = "running"
    /\ hist.requests = 2
    /\ tpmcontext.users = {"w2"}
    /\ tpmcontext.holder = Some("w2")
    /\ verify_resp = <<"none">> /\ hist.last_post = <<"none">>

PublishUnderCellMutexStep ==
    (payload_symm_key = None /\ payload_symm_key' # None)
    => MutexOf.payload_symm_key \notin RunnerHeld

C24_Original ==
    (config.run_revocation /\ server = "running" /\ worker_pc \notin {"idle", "start"})
    => \/ worker_pc \in {"revocation", "listening"}
       \/ /\ worker_pc = "done"
          /\ worker_result \in {Ok, Err("Revocation", "listening")}

\* The listener is enabled, the payload failed to decrypt, and the worker
\* has ended without the listener ever having run; the server goes on.
C24_Witness ==
    /\ config.run_revocation
    /\ worker_pc = "done"
    /\ worker_result = Err("Decrypt", "decrypt")
    /\ server = "running"

\* The steps of the Payload Runner after its wait, in the order claimed.
RunnerOrder ==
    <<"decrypt", "setup_unzipped", "write_key", "write_payload", "unzip",
      "script", "action_list">>

RunnerIndex(step) == CHOOSE i \in 1..Len(RunnerOrder) : RunnerOrder[i] = step

\* A runner step is followed by the next step of the order, or ends the
\* runner.
RunnerOrderStep ==
    (worker_pc \in PastWait /\ worker_pc' # worker_pc)
    => \/ worker_pc' = "done"
       \/ /\ worker_pc # "action_list"
          /\ worker_pc' = RunnerOrder[RunnerIndex(worker_pc) + 1]
       \/ worker_pc = "action_list" /\ worker_pc' = "revocation"

\* A worker that has ended does nothing more.
RunnerEndedStep ==
    worker_pc = "done" =>
      UNCHANGED <<worker_pc, worker_result, mount_fs, symm_key_lock>>

\* Both files are completely written.
FilesWritten ==
    /\ mount_fs.unzipped
    /\ payload_symm_key # None /\ mount_fs.key_file = payload_symm_key
    /\ mount_fs.payload_file = Some("payload")

\* No runner step after step `at` has had an effect.
LaterRunnerStepsNotRun(at) ==
    LET i == RunnerIndex(at)
    IN /\ i <= RunnerIndex("decrypt") =>
            /\ ~mount_fs.unzipped
            /\ mount_fs.key_file = None /\ hist.key_writes = 0
       /\ i <= RunnerIndex("setup_unzipped") =>
            (mount_fs.key_file = None /\ hist.key_writes = 0)
       /\ i <= RunnerIndex("write_key") =>
            (mount_fs.payload_file = None /\ hist.payload_writes = 0)
       /\ i <= RunnerIndex("unzip") => ~mount_fs.extracted
       /\ i <= RunnerIndex("script") => hist.script_runs = 0

\* C25: the runner goes through decrypt, unzipped/ setup, key file, payload
\* file, extraction, init script and action_list in that order; a step that
\* fails ends the runner with no later step executed and no second run; a
\* decrypt failure leaves the secure mount untouched; and the init script
\* runs only with both files completely written.
C25_RunnerStepOrder ==
    /\ [][RunnerOrderStep]_vars
    /\ [][RunnerEndedStep]_vars
    /\ [](hist.runs <= 1 /\ hist.decrypts <= 1)
    /\ [](mount_fs.unzipped =>
            /\ hist.decrypts = 1
            /\ payload_symm_key # None
            /\ encr_payload = <<"aead", payload_symm_key[1]>>)
    /\ [](mount_fs.key_file # None => mount_fs.unzipped)
    /\ [](mount_fs.payload_file # None =>
            (mount_fs.unzipped /\ mount_fs.key_file = payload_symm_key))
    /\ [](mount_fs.extracted =>
            (config.extract_payload_zip /\ FilesWritten))
    /\ []((worker_pc \in {"unzip", "script", "action_list"} \/ hist.script_runs > 0)
            => FilesWritten)
    /\ []((worker_result.status = "Err" /\ worker_result.at \in PastWait) =>
            /\ worker_pc = "done"
            /\ LaterRunnerStepsNotRun(worker_result.at))

\* The payload did not decrypt: the runner has ended and the secure mount
\* is as it was.
C25_Witness ==
    /\ worker_result = Err("Decrypt", "decrypt")
    /\ worker_pc = "done"
    /\ hist.decrypts = 1
    /\ ~mount_fs.unzipped /\ mount_fs.key_file = None
    /\ mount_fs.payload_file = None

\* A step that executes the init script sets its mode to 0700, runs it in
\* unzipped/ and takes the runner on to action_list, whatever the status.
ScriptExecutedStep ==
    hist.script' # hist.script
    => /\ worker_pc = "script" /\ worker_pc' = "action_list"
       /\ hist.script = None
       /\ hist.script'[1].mode = "0700"
       /\ hist.script'[1].cwd = "unzipped"
       /\ mount_fs.unzipped
       /\ hist.script_runs' = hist.script_runs + 1
       /\ UNCHANGED <<worker_result, symm_key_lock>>

\* The script step ends in action_list, or in an Other error with nothing
\* executed.
ScriptStep ==
    (worker_pc = "script" /\ worker_pc' # "script")
    => \/ worker_pc' = "action_list" /\ UNCHANGED worker_result
       \/ /\ worker_pc' = "done"
          /\ worker_result' = Err("Other", "script")
          /\ hist'.script = hist.script

CellUntouchedStep ==
    symm_key_lock = "runner" => UNCHANGED <<payload_symm_key, verify_resp>>

\* The runner has returned to the worker, with Ok or with an error.
RunnerReturned ==
    \/ worker_pc \in {"revocation", "listening"} /\ hist.runs = 1
    \/ /\ worker_pc = "done" /\ hist.runs = 1
       /\ worker_result.status \in {"Ok", "Err"}

\* C27: from the end of its wait to its return the runner holds the mutex
\* of payload_symm_key, over the decryption, the writes, the extraction and
\* the script; meanwhile no keys handler can verify against the cell or
\* write it; and the mutex is released when the runner returns, with Ok and
\* with every error.
C27_LockHeldUntilReturn ==
    /\ [](worker_pc \in PastWait => symm_key_lock = "runner")
    /\ []((worker_pc \in PastWait) =>
            (payload_symm_key # None /\ hist.wait_exits = 1))
    /\ [][CellUntouchedStep]_vars
    /\ [](symm_key_lock = "runner" =>
            (~ENABLED GetVerify /\ ~ENABLED PostU /\ ~ENABLED PostV))
    /\ [](RunnerReturned => symm_key_lock = "free")
    /\ [](worker_pc = "done" => symm_key_lock # "runner")

\* The runner is at the init script with the mutex held while the server
\* could still take a request.
C27_Witness ==
    /\ worker_pc = "script"
    /\ symm_key_lock = "runner"
    /\ server = "running"
    /\ hist.requests < MaxRequests

====
